---- MODULE Spec2Model ----
(***************************************************************************)
(* TailingsIQ API (src/backend/main.py): token service, in-memory facility *)
(* store, synthetic risk assessment, HTTP routing.                         *)
(*                                                                         *)
(* Time is counted in whole minutes.  Risk scores are counted in           *)
(* hundredths (0.30 is 30): round(x, 2) yields the double nearest to a     *)
(* two-decimal value, which is the same double as the literals 0.3 and 0.7 *)
(* it is compared with, so the comparisons are exact on hundredths.        *)
(***************************************************************************)
EXTENDS Integers, Sequences, FiniteSets, TLC

VARIABLES
    facilities_db,          \* main.py:50  list of stored Facility records
    risk_assessments_db,    \* main.py:51  list of RiskAssessment records
    facility_counter,       \* main.py:52  next identifier
    now,                    \* datetime.utcnow(), in minutes
    issued,                 \* the client's copy of the last token /token returned
    resp,                   \* the response to the most recent request
    inflight                \* requests being served concurrently (SpecConc)

vars == <<facilities_db, risk_assessments_db, facility_counter, now, issued,
          resp, inflight>>

store == <<facilities_db, risk_assessments_db, facility_counter>>

-----------------------------------------------------------------------------
(* Bounds of the model *)

MaxFacilities == 2      \* creations explored
MaxLog == 1             \* assessments explored by Spec
MaxTime == 32           \* minutes explored by SpecTime
MaxRiskLog == 2         \* assessments explored by SpecRisk
MaxInFlight == 2        \* concurrent requests explored by SpecConc

-----------------------------------------------------------------------------
(* Configuration, main.py:11-14 *)

SECRET_KEY == "server-key"
ACCESS_TOKEN_EXPIRE_MINUTES == 30
DEFAULT_EXPIRE_MINUTES == 15

None == "None"

(* Status codes *)
OK == 200
UNAUTHORIZED == 401
NOT_FOUND == 404
METHOD_NOT_ALLOWED == 405

-----------------------------------------------------------------------------
(* Inputs *)

Usernames == {"demo", "admin"}
Passwords == {"demo", "secret"}

\* Request bodies of POST /facilities: Facility with Optional id (<<>> is an
\* absent id, <<n>> an id the client supplied).
Payloads ==
    { [id |-> <<>>, name |-> "North Dam", location |-> "Nevada",
       type |-> "tailings", owner |-> "Acme", status |-> "active"],
      [id |-> <<7>>, name |-> "South Pond", location |-> "Utah",
       type |-> "dam", owner |-> "Borax", status |-> "closed"] }

\* Path parameters facility_id
Ids == (-1 .. MaxFacilities + 1) \cup {999}

\* Tokens a client can present without having obtained them from this process:
\* signed with another key, signed with the server key but without "sub", and
\* one issued before the process started (its expiry already passed).
ForeignTokens ==
    { [sub |-> "demo", exp |-> 1000, key |-> "other-key"],
      [sub |-> None,   exp |-> 1000, key |-> SECRET_KEY],
      [sub |-> "demo", exp |-> -1,   key |-> SECRET_KEY] }

\* Authorization headers: absent (<<>>) or Bearer <token>
Auths == {<<>>} \cup {<<t>> : t \in ForeignTokens} \cup {issued}

\* Values of round(random.uniform(0.1, 0.9), 2), in hundredths (main.py:127)
RiskScores == 10 .. 90
ScoreSample == {29, 30, 70}

Methods == {"GET", "POST"}

-----------------------------------------------------------------------------
(* Token service *)

\* main.py:55-63.  expires_delta is <<>> (None) or <<minutes>>; a zero
\* timedelta is falsy too.
create_access_token(data, expires_delta, t) ==
    LET expire == IF expires_delta # <<>> /\ expires_delta[1] # 0
                  THEN t + expires_delta[1]
                  ELSE t + DEFAULT_EXPIRE_MINUTES
    IN  [sub |-> data.sub, exp |-> expire, key |-> SECRET_KEY]

\* Variant: the expiry claim is not checked
DecodeIgnoresExpiry(token, t) == token.key # SECRET_KEY

\* jwt.decode (main.py:67): the signature must be the server key's and the
\* expiry must not have passed (PyJWT: expired when exp <= now).
DecodeFails(token, t) ==
    \/ token.key # SECRET_KEY
    \/ token.exp <= t

\* Variant: a payload without "sub" is accepted
verify_token_sub_unchecked(auth, t) ==
    IF auth = <<>> THEN <<>>
    ELSE IF DecodeFails(auth[1], t) THEN <<>>
    ELSE <<auth[1].sub>>

\* main.py:27 and 65-81.  The dependency of every /facilities route: the
\* result is <<username>>, or <<>> for 401.
verify_token(auth, t) ==
    IF auth = <<>> THEN <<>>
    ELSE IF DecodeFails(auth[1], t) THEN <<>>
    ELSE IF auth[1].sub = None THEN <<>>
    ELSE <<auth[1].sub>>

-----------------------------------------------------------------------------
(* Store helpers *)

\* Variant: the identifier is used as a list position, facilities_db[id - 1],
\* with Python's negative indices counting from the end
LookupByIndex(db, facility_id) ==
    LET idx == facility_id - 1
    IN  IF idx >= 0 /\ idx < Len(db) THEN <<db[idx + 1]>>
        ELSE IF idx < 0 /\ idx >= -Len(db) THEN <<db[Len(db) + idx + 1]>>
        ELSE <<>>

\* Variant: the generator has no filter, next(iter(facilities_db), None)
LookupNoFilter(db, facility_id) ==
    IF db = <<>> THEN <<>> ELSE <<db[1]>>

\* next((f for f in facilities_db if f.id == facility_id), None), main.py:114
\* and 121: <<>> or <<the first match>>.
Lookup(db, facility_id) ==
    LET hits == {i \in 1..Len(db) : db[i].id = facility_id}
    IN  IF hits = {} THEN <<>>
        ELSE <<db[CHOOSE i \in hits : \A j \in hits : i <= j]>>

\* Variant: an id supplied in the body is kept, facility.id or facility_counter
AssignedIdFromBody(facility, counter) ==
    IF facility.id # <<>> /\ facility.id[1] # 0 THEN facility.id[1] ELSE counter

\* main.py:107: the identifier a creation assigns
AssignedId(facility, counter) == counter

\* main.py:108: facility_counter += 1
NextCounter(counter) == counter + 1

\* Variant: facilities_db.insert(0, facility)
StorePrepend(db, facility) == <<facility>> \o db

\* main.py:109: facilities_db.append(facility)
StoreAppend(db, facility) == Append(db, facility)

\* Variant: the thresholds are inclusive (<=)
RiskLevelInclusive(risk_score) ==
    IF risk_score <= 30 THEN "Low"
    ELSE IF risk_score <= 70 THEN "Medium"
    ELSE "High"

\* main.py:129-149
RiskLevel(risk_score) ==
    IF risk_score < 30 THEN "Low"
    ELSE IF risk_score < 70 THEN "Medium"
    ELSE "High"

Recommendations(risk_score) ==
    IF risk_score < 30 THEN
        << "Continue regular monitoring",
           "Maintain current safety protocols" >>
    ELSE IF risk_score < 70 THEN
        << "Increase monitoring frequency",
           "Review safety procedures",
           "Consider additional safety measures" >>
    ELSE
        << "Immediate safety review required",
           "Increase monitoring to daily",
           "Consider emergency response planning",
           "Consult with safety experts" >>

\* main.py:151-157
MakeAssessment(facility_id, risk_score, t) ==
    [facility_id |-> facility_id,
     risk_score |-> risk_score,
     risk_level |-> RiskLevel(risk_score),
     recommendations |-> Recommendations(risk_score),
     timestamp |-> t]

-----------------------------------------------------------------------------
(* Routing: the decorators of main.py:84, 100, 104, 112, 119, 162 *)

Routes ==
    { <<"POST", "/token">>,
      <<"GET",  "/facilities">>,
      <<"POST", "/facilities">>,
      <<"GET",  "/facilities/{id}">>,
      <<"POST", "/facilities/{id}/risk-assessment">>,
      <<"GET",  "/health">> }

Paths == {r[2] : r \in Routes}

ProtectedPaths ==
    {"/facilities", "/facilities/{id}", "/facilities/{id}/risk-assessment"}

Response(method, path, args, auth, status, body) ==
    [method |-> method, path |-> path, args |-> args, auth |-> auth,
     at |-> now, status |-> status, body |-> body]

\* No request has been served yet
NoResponse == [method |-> "-", path |-> "-", args |-> <<>>, auth |-> <<>>,
               at |-> 0, status |-> 0, body |-> <<>>]

\* A slot of the server's set of requests in flight.  overlapped records that
\* another request was in flight at the same time, seen the value of
\* facility_counter when the request was admitted to its handler; the handlers
\* read neither.
Idle == [stage |-> "idle", auth |-> <<>>, facility |-> <<>>, status |-> 0,
         body |-> <<>>, overlapped |-> FALSE, seen |-> 0]

Slots == 1 .. MaxInFlight

NoRequests == [r \in Slots |-> Idle]

-----------------------------------------------------------------------------
(* Initial state: main.py:50-52 *)

Init ==
    /\ facilities_db = <<>>
    /\ risk_assessments_db = <<>>
    /\ facility_counter = 1
    /\ now = 0
    /\ issued = <<>>
    /\ resp = NoResponse
    /\ inflight = NoRequests

-----------------------------------------------------------------------------
(* Handlers.  Each action is one request served from start to end. *)

\* Variant: the password is not compared
LoginUsernameOnly(username, password) ==
    /\ IF username = "demo"
       THEN LET access_token ==
                    create_access_token([sub |-> username],
                                        <<ACCESS_TOKEN_EXPIRE_MINUTES>>, now)
            IN  /\ resp' = Response("POST", "/token", <<username, password>>,
                                    <<>>, OK, <<access_token>>)
                /\ issued' = <<access_token>>
       ELSE /\ resp' = Response("POST", "/token", <<username, password>>,
                                <<>>, UNAUTHORIZED, <<>>)
            /\ UNCHANGED issued
    /\ UNCHANGED <<store, now, inflight>>

\* POST /token, main.py:84-98
Login(username, password) ==
    /\ IF username = "demo" /\ password = "demo"
       THEN LET access_token ==
                    create_access_token([sub |-> username],
                                        <<ACCESS_TOKEN_EXPIRE_MINUTES>>, now)
            IN  /\ resp' = Response("POST", "/token", <<username, password>>,
                                    <<>>, OK, <<access_token>>)
                /\ issued' = <<access_token>>
       ELSE /\ resp' = Response("POST", "/token", <<username, password>>,
                                <<>>, UNAUTHORIZED, <<>>)
            /\ UNCHANGED issued
    /\ UNCHANGED <<store, now, inflight>>

\* GET /facilities, main.py:100-102
List(auth) ==
    /\ IF verify_token(auth, now) = <<>>
       THEN resp' = Response("GET", "/facilities", <<>>, auth, UNAUTHORIZED, <<>>)
       ELSE resp' = Response("GET", "/facilities", <<>>, auth, OK, facilities_db)
    /\ UNCHANGED <<store, now, issued, inflight>>

\* POST /facilities, main.py:104-110
Create(auth, facility) ==
    IF verify_token(auth, now) = <<>>
    THEN /\ resp' = Response("POST", "/facilities", <<>>, auth, UNAUTHORIZED, <<>>)
         /\ UNCHANGED <<store, now, issued, inflight>>
    ELSE LET stored == [facility EXCEPT
                            !.id = AssignedId(facility, facility_counter)]
         IN  /\ facility_counter' = NextCounter(facility_counter)
             /\ facilities_db' = StoreAppend(facilities_db, stored)
             /\ resp' = Response("POST", "/facilities", <<>>, auth, OK, <<stored>>)
             /\ UNCHANGED <<risk_assessments_db, now, issued, inflight>>

\* GET /facilities/{facility_id}, main.py:112-117
Get(auth, facility_id) ==
    /\ IF verify_token(auth, now) = <<>>
       THEN resp' = Response("GET", "/facilities/{id}", <<facility_id>>, auth,
                             UNAUTHORIZED, <<>>)
       ELSE LET facility == Lookup(facilities_db, facility_id)
            IN  IF facility = <<>>
                THEN resp' = Response("GET", "/facilities/{id}", <<facility_id>>,
                                      auth, NOT_FOUND, <<>>)
                ELSE resp' = Response("GET", "/facilities/{id}", <<facility_id>>,
                                      auth, OK, facility)
    /\ UNCHANGED <<store, now, issued, inflight>>

\* Variant: the facility is not looked up before it is assessed
AssessUnchecked(auth, facility_id, risk_score) ==
    LET path == "/facilities/{id}/risk-assessment" IN
    IF verify_token(auth, now) = <<>>
    THEN /\ resp' = Response("POST", path, <<facility_id>>, auth, UNAUTHORIZED, <<>>)
         /\ UNCHANGED <<store, now, issued, inflight>>
    ELSE LET assessment == MakeAssessment(facility_id, risk_score, now)
         IN  /\ risk_assessments_db' = Append(risk_assessments_db, assessment)
             /\ resp' = Response("POST", path, <<facility_id>>, auth, OK,
                                 <<assessment>>)
             /\ UNCHANGED <<facilities_db, facility_counter, now, issued, inflight>>

\* POST /facilities/{facility_id}/risk-assessment, main.py:119-160
Assess(auth, facility_id, risk_score) ==
    LET path == "/facilities/{id}/risk-assessment" IN
    IF verify_token(auth, now) = <<>>
    THEN /\ resp' = Response("POST", path, <<facility_id>>, auth, UNAUTHORIZED, <<>>)
         /\ UNCHANGED <<store, now, issued, inflight>>
    ELSE IF Lookup(facilities_db, facility_id) = <<>>
    THEN /\ resp' = Response("POST", path, <<facility_id>>, auth, NOT_FOUND, <<>>)
         /\ UNCHANGED <<store, now, issued, inflight>>
    ELSE LET assessment == MakeAssessment(facility_id, risk_score, now)
         IN  /\ risk_assessments_db' = Append(risk_assessments_db, assessment)
             /\ resp' = Response("POST", path, <<facility_id>>, auth, OK,
                                 <<assessment>>)
             /\ UNCHANGED <<facilities_db, facility_counter, now, issued, inflight>>

\* GET /health, main.py:162-164
Health ==
    /\ resp' = Response("GET", "/health", <<>>, <<>>, OK, <<>>)
    /\ UNCHANGED <<store, now, issued, inflight>>

\* A request whose path is routed but not with this method: the router
\* answers 405 before any dependency or handler runs.
MethodNotAllowed(method, path, auth, facility_id) ==
    /\ <<method, path>> \notin Routes
    /\ resp' = Response(method, path, <<facility_id>>, auth,
                        METHOD_NOT_ALLOWED, <<>>)
    /\ UNCHANGED <<store, now, issued, inflight>>

\* The clock advances
Tick(limit) ==
    /\ now < limit
    /\ now' = now + 1
    /\ UNCHANGED <<store, issued, resp, inflight>>

-----------------------------------------------------------------------------
(* Spec: every route, requests served one after the other, clock held. *)

Next ==
    \/ \E u \in Usernames, p \in Passwords : Login(u, p)
    \/ \E a \in Auths : List(a)
    \/ \E a \in Auths, f \in Payloads :
          /\ Len(facilities_db) < MaxFacilities \/ verify_token(a, now) = <<>>
          /\ Create(a, f)
    \/ \E a \in Auths, i \in Ids : Get(a, i)
    \/ \E a \in Auths, i \in Ids, s \in ScoreSample :
          /\ \/ Len(risk_assessments_db) < MaxLog
             \/ verify_token(a, now) = <<>>
             \/ Lookup(facilities_db, i) = <<>>
          /\ Assess(a, i, s)
    \/ Health
    \/ \E m \in Methods, p \in Paths, a \in {<<>>, issued}, i \in {999} :
          MethodNotAllowed(m, p, a, i)

Spec == Init /\ [][Next]_vars

-----------------------------------------------------------------------------
(* SpecTime: the token service over time.  Tokens are issued, the clock    *)
(* advances past their expiry, and they are presented to protected routes. *)

NextTime ==
    \/ \E u \in Usernames, p \in Passwords : Login(u, p)
    \/ \E a \in Auths : List(a)
    \/ \E a \in Auths : Get(a, 1)
    \/ Tick(MaxTime)

SpecTime == Init /\ [][NextTime]_vars

-----------------------------------------------------------------------------
(* SpecRisk: one login, one facility, every value the score can take. *)

NextRisk ==
    \/ Login("demo", "demo")
    \/ \E f \in Payloads : facilities_db = <<>> /\ Create(issued, f)
    \/ \E i \in {1, 2}, s \in RiskScores :
          Len(risk_assessments_db) < MaxRiskLog /\ Assess(issued, i, s)

SpecRisk == Init /\ [][NextRisk]_vars

-----------------------------------------------------------------------------
(* SpecConc: POST /facilities requests in flight at the same time.         *)
(*                                                                         *)
(* uvicorn.run (main.py:168) serves the application on one event loop in   *)
(* one process.  Each request is a task of that loop.  The task suspends    *)
(* while the request is read and while the verify_token dependency is      *)
(* resolved, so the requests interleave up to there.  create_facility is a *)
(* coroutine function whose body (main.py:106-110) holds no await: once    *)
(* the loop calls it, it runs to its return before any other task runs.    *)

InFlight(r) == inflight[r].stage \in {"received", "authorized"}

\* The request is accepted and its task starts, main.py:104-105
Receive(r, auth, facility) ==
    /\ inflight[r].stage = "idle"
    /\ LET others == {q \in Slots : q # r /\ InFlight(q)}
       IN  inflight' = [q \in Slots |->
              IF q = r
              THEN [Idle EXCEPT !.stage = "received", !.auth = auth,
                                !.facility = <<facility>>,
                                !.overlapped = (others # {})]
              ELSE IF q \in others
              THEN [inflight[q] EXCEPT !.overlapped = TRUE]
              ELSE inflight[q]]
    /\ UNCHANGED <<store, now, issued, resp>>

\* The dependency is resolved, main.py:65-81 (Depends(verify_token) of
\* main.py:105)
Authorize(r) ==
    /\ inflight[r].stage = "received"
    /\ IF verify_token(inflight[r].auth, now) = <<>>
       THEN inflight' = [inflight EXCEPT ![r].stage = "done",
                                         ![r].status = UNAUTHORIZED]
       ELSE inflight' = [inflight EXCEPT ![r].stage = "authorized",
                                         ![r].seen = facility_counter]
    /\ UNCHANGED <<store, now, issued, resp>>

\* Variant: the handler suspends between reading the counter and writing it
\* back, so it works on the value the counter had when the request was
\* admitted
RunCreateStale(r) ==
    /\ inflight[r].stage = "authorized"
    /\ LET facility == inflight[r].facility[1]
           stored == [facility EXCEPT !.id = inflight[r].seen]
       IN  /\ facility_counter' = inflight[r].seen + 1
           /\ facilities_db' = StoreAppend(facilities_db, stored)
           /\ inflight' = [inflight EXCEPT ![r].stage = "done",
                                           ![r].status = OK,
                                           ![r].body = <<stored>>]
    /\ UNCHANGED <<risk_assessments_db, now, issued, resp>>

\* The handler body runs, main.py:106-110
RunCreate(r) ==
    /\ inflight[r].stage = "authorized"
    /\ LET facility == inflight[r].facility[1]
           stored == [facility EXCEPT
                          !.id = AssignedId(facility, facility_counter)]
       IN  /\ facility_counter' = NextCounter(facility_counter)
           /\ facilities_db' = StoreAppend(facilities_db, stored)
           /\ inflight' = [inflight EXCEPT ![r].stage = "done",
                                           ![r].status = OK,
                                           ![r].body = <<stored>>]
    /\ UNCHANGED <<risk_assessments_db, now, issued, resp>>

NextConc ==
    \/ Login("demo", "demo")
    \/ \E r \in Slots, a \in Auths, f \in Payloads : Receive(r, a, f)
    \/ \E r \in Slots : Authorize(r)
    \/ \E r \in Slots : RunCreate(r)

SpecConc == Init /\ [][NextConc]_vars

-----------------------------------------------------------------------------
(* Vocabulary of the properties *)

Routed(r) == <<r.method, r.path>> \in Routes

\* The request carried a token signed by the server, naming a subject, and
\* was served strictly before the token's expiry
Authenticated(r) ==
    /\ r.auth # <<>>
    /\ r.auth[1].key = SECRET_KEY
    /\ r.auth[1].sub # None
    /\ r.at < r.auth[1].exp

\* The request carried no token, or one that verification cannot accept
Unverifiable(r) ==
    \/ r.auth = <<>>
    \/ r.auth[1].key # SECRET_KEY
    \/ r.auth[1].sub = None
    \/ r.at > r.auth[1].exp

IsPrefix(s, t) == Len(s) <= Len(t) /\ SubSeq(t, 1, Len(s)) = s

StoredIds == {facilities_db[k].id : k \in 1..Len(facilities_db)}

RiskPath == "/facilities/{id}/risk-assessment"

-----------------------------------------------------------------------------
(* C1: after N successful creations, served one after the other and        *)
(* interleaved with any other requests, the k-th created facility has      *)
(* identifier k: the identifiers are exactly 1..N in creation order,       *)
(* whatever id the request body carried, and the next one is N+1.          *)
C1_SequentialIds ==
    /\ facility_counter = Len(facilities_db) + 1
    /\ \A k \in 1..Len(facilities_db) : facilities_db[k].id = k
    /\ (resp.path = "/facilities" /\ resp.method = "POST" /\ resp.status = OK)
          => resp.body[1].id = Len(facilities_db)

\* Two facilities created, the second from a body that carried id 7, with an
\* assessment in between
C1_Witness ==
    /\ Len(facilities_db) = 2
    /\ facilities_db[2].name = "South Pond"
    /\ facilities_db[2].id = 2
    /\ Len(risk_assessments_db) = 1

(* C2: a request to a /facilities route without a bearer token, or with a  *)
(* token that verification cannot accept, is answered 401; /token and      *)
(* /health are answered without a token.                                   *)
C2_ProtectedRoutes ==
    /\ (resp.path \in ProtectedPaths /\ Routed(resp) /\ Unverifiable(resp))
          => resp.status = UNAUTHORIZED
    /\ (resp.path = "/health" /\ Routed(resp))
          => (resp.auth = <<>> /\ resp.status = OK)
    /\ (resp.path = "/token" /\ Routed(resp) /\ resp.args = <<"demo", "demo">>)
          => (resp.auth = <<>> /\ resp.status = OK)

\* An assessment of a stored facility refused for a token lacking its subject
C2_Witness ==
    /\ resp.path = RiskPath
    /\ resp.method = "POST"
    /\ resp.args[1] \in StoredIds
    /\ resp.auth # <<>>
    /\ resp.auth[1].sub = None
    /\ resp.status = UNAUTHORIZED

(* C3: login succeeds exactly when username and password are both "demo";  *)
(* the token it returns is accepted by verification at every instant       *)
(* before its expiry, which yields the same username; any other pair is    *)
(* answered 401 with no token.                                             *)
C3_Issue ==
    /\ (resp.path = "/token" /\ Routed(resp)) =>
          IF resp.args = <<"demo", "demo">>
          THEN /\ resp.status = OK
               /\ Len(resp.body) = 1
               /\ \A t \in resp.at .. (resp.body[1].exp - 1) :
                     verify_token(resp.body, t) = <<resp.args[1]>>
          ELSE /\ resp.status = UNAUTHORIZED
               /\ resp.body = <<>>
    /\ (/\ resp.path \in ProtectedPaths
        /\ Routed(resp)
        /\ issued # <<>>
        /\ resp.auth = issued
        /\ resp.at < issued[1].exp) => resp.status # UNAUTHORIZED

\* The issued token accepted in the last minute before its expiry
C3_Witness ==
    /\ issued # <<>>
    /\ resp.path = "/facilities"
    /\ resp.auth = issued
    /\ resp.at = issued[1].exp - 1
    /\ resp.at > 0
    /\ resp.status = OK

(* C4: a token issued at time t expires at t + 30 minutes; a server-signed *)
(* token is accepted strictly before its expiry and rejected strictly      *)
(* after it, and a token that was rejected is rejected again whenever it   *)
(* is presented later.                                                     *)
C4_ExpiryState ==
    /\ (resp.path = "/token" /\ Routed(resp) /\ resp.status = OK)
          => resp.body[1].exp = resp.at + 30
    /\ (/\ resp.path \in ProtectedPaths
        /\ Routed(resp)
        /\ resp.auth # <<>>
        /\ resp.auth[1].key = SECRET_KEY
        /\ resp.auth[1].sub # None) =>
          /\ resp.at < resp.auth[1].exp => resp.status # UNAUTHORIZED
          /\ resp.at > resp.auth[1].exp => resp.status = UNAUTHORIZED

C4_ExpiryStep ==
    (/\ resp.path \in ProtectedPaths
     /\ resp.status = UNAUTHORIZED
     /\ resp.auth # <<>>
     /\ resp'.path \in ProtectedPaths
     /\ resp'.auth = resp.auth) => resp'.status = UNAUTHORIZED

C4_Expiry == []C4_ExpiryState /\ [][C4_ExpiryStep]_vars

\* The issued token rejected after its expiry
C4_Witness ==
    /\ issued # <<>>
    /\ resp.path = "/facilities"
    /\ resp.auth = issued
    /\ resp.at > issued[1].exp
    /\ resp.status = UNAUTHORIZED

(* C5: an authenticated get or assess of an id that no stored facility has *)
(* (zero, negative, or beyond the creations so far) is answered 404.       *)
C5_NotFound ==
    (/\ resp.path \in {"/facilities/{id}", RiskPath}
     /\ Routed(resp)
     /\ Authenticated(resp)
     /\ resp.args[1] \notin StoredIds) => resp.status = NOT_FOUND

\* get of id 0 with two facilities stored
C5_Witness ==
    /\ Len(facilities_db) = 2
    /\ resp.path = "/facilities/{id}"
    /\ resp.args = <<0>>
    /\ Authenticated(resp)
    /\ resp.status = NOT_FOUND

(* C6: every assessment has a score of 10..90 hundredths, the level Low    *)
(* below 0.3, Medium from 0.3 and below 0.7, High from 0.7, and the        *)
(* recommendation list of that level; assessments with the same score have *)
(* the same level and recommendations.                                     *)
C6_ScoreAndLevel ==
    LET log == risk_assessments_db
        Tier(a) ==
            \/ /\ a.risk_score < 30
               /\ a.risk_level = "Low"
               /\ Len(a.recommendations) = 2
               /\ a.recommendations[1] = "Continue regular monitoring"
            \/ /\ a.risk_score >= 30 /\ a.risk_score < 70
               /\ a.risk_level = "Medium"
               /\ Len(a.recommendations) = 3
               /\ a.recommendations[1] = "Increase monitoring frequency"
            \/ /\ a.risk_score >= 70
               /\ a.risk_level = "High"
               /\ Len(a.recommendations) = 4
               /\ a.recommendations[1] = "Immediate safety review required"
    IN  /\ \A k \in 1..Len(log) :
              /\ log[k].risk_score >= 10
              /\ log[k].risk_score <= 90
              /\ Tier(log[k])
        /\ \A j, k \in 1..Len(log) :
              log[j].risk_score = log[k].risk_score =>
                 /\ log[j].risk_level = log[k].risk_level
                 /\ log[j].recommendations = log[k].recommendations
        /\ (resp.path = RiskPath /\ resp.status = OK) =>
              resp.body[1] = log[Len(log)]

\* Two assessments at both thresholds
C6_Witness ==
    /\ Len(risk_assessments_db) = 2
    /\ risk_assessments_db[1].risk_score = 30
    /\ risk_assessments_db[1].risk_level = "Medium"
    /\ risk_assessments_db[2].risk_score = 70
    /\ risk_assessments_db[2].risk_level = "High"

(* C7 as stated: after a login and one creation, an authenticated          *)
(* GET /facilities/999/risk-assessment is answered 404.                    *)
C7_GetAssessment404 ==
    (/\ resp.method = "GET"
     /\ resp.path = RiskPath
     /\ resp.args = <<999>>
     /\ Authenticated(resp)
     /\ Len(facilities_db) = 1) => resp.status = NOT_FOUND

(* C7 amended: after a login and one creation, an authenticated            *)
(* POST /facilities/999/risk-assessment is answered 404; the same path     *)
(* with GET is answered 405.                                               *)
C7_PostAssessment404 ==
    (/\ resp.path = RiskPath
     /\ resp.args = <<999>>
     /\ Authenticated(resp)
     /\ Len(facilities_db) = 1) =>
        /\ resp.method = "POST" => resp.status = NOT_FOUND
        /\ resp.method = "GET" => resp.status = METHOD_NOT_ALLOWED

C7_Witness ==
    /\ resp.method = "POST"
    /\ resp.path = RiskPath
    /\ resp.args = <<999>>
    /\ Authenticated(resp)
    /\ facilities_db # <<>>
    /\ facilities_db[1].id = 1
    /\ Len(facilities_db) = 1
    /\ resp.status = NOT_FOUND

(* C8: the store is append-only.  Every step leaves the stored facilities  *)
(* as a prefix of the store; only a successful create changes the store,   *)
(* by one record at the end, which is the record it returns; list returns  *)
(* the whole store in order; get returns the stored record of that id.     *)
C8_Step ==
    /\ IsPrefix(facilities_db, facilities_db')
    /\ facilities_db' # facilities_db =>
          /\ Len(facilities_db') = Len(facilities_db) + 1
          /\ resp'.path = "/facilities" /\ resp'.method = "POST"
          /\ resp'.status = OK
          /\ resp'.body = <<facilities_db'[Len(facilities_db')]>>
    /\ (resp'.path = "/facilities" /\ resp'.method = "GET" /\ resp'.status = OK)
          => resp'.body = facilities_db'
    /\ (resp'.path = "/facilities/{id}" /\ resp'.method = "GET"
            /\ resp'.status = OK)
          => \E k \in 1..Len(facilities_db') :
                /\ facilities_db'[k].id = resp'.args[1]
                /\ resp'.body = <<facilities_db'[k]>>

C8_AppendOnly == [][C8_Step]_vars

\* get of the first facility after a second one was created
C8_Witness ==
    /\ Len(facilities_db) = 2
    /\ resp.path = "/facilities/{id}"
    /\ resp.status = OK
    /\ resp.args = <<1>>
    /\ resp.body = <<facilities_db[1]>>

(* C10: every record of the assessment log names a stored facility; only a *)
(* successful assess changes the log, by one record at the end, leaving    *)
(* store and counter as they are; a request answered 401 or 404 leaves     *)
(* log, store and counter as they are.                                     *)
C10_LogState ==
    \A k \in 1..Len(risk_assessments_db) :
        risk_assessments_db[k].facility_id \in StoredIds

C10_LogStep ==
    /\ risk_assessments_db' # risk_assessments_db =>
          /\ \E a \in {resp'.body[1]} :
                risk_assessments_db' = Append(risk_assessments_db, a)
          /\ resp'.path = RiskPath /\ resp'.status = OK
          /\ UNCHANGED <<facilities_db, facility_counter>>
    /\ resp'.status \in {UNAUTHORIZED, NOT_FOUND} => UNCHANGED store

C10_Log == []C10_LogState /\ [][C10_LogStep]_vars

\* A refused assessment after a recorded one
C10_Witness ==
    /\ Len(risk_assessments_db) = 1
    /\ resp.path = RiskPath
    /\ resp.method = "POST"
    /\ resp.status = NOT_FOUND

-----------------------------------------------------------------------------
(* C9 *)

Created == {r \in Slots : inflight[r].stage = "done" /\ inflight[r].status = OK}

Linear ==
    /\ facility_counter = Len(facilities_db) + 1
    /\ \A k \in 1..Len(facilities_db) : facilities_db[k].id = k
    /\ \A r, q \in Created :
          r # q => inflight[r].body[1].id # inflight[q].body[1].id
    /\ {inflight[r].body[1].id : r \in Created} = 1..Len(facilities_db)

Raced == \E r, q \in Created :
            r # q /\ inflight[r].overlapped /\ inflight[q].overlapped

(* C9 as stated: creations in flight at the same time end with identifiers *)
(* that are not linear (a shared identifier, a skipped one, or store order *)
(* against identifier order).                                              *)
C9_RaceBreaksIds == Raced => ~Linear

(* C9 amended: with creations in flight at the same time, the handler body *)
(* of each runs without interruption, and the identifiers stay linear: no  *)
(* identifier is shared or skipped, and store order is identifier order.   *)
C9_NoRace == Linear

\* Two creations that were in flight together, both completed
C9_Witness == Raced /\ Len(facilities_db) = 2

====
